---- MODULE Spec2Model ----
(***************************************************************************)
(* The renter's download path of Sia: Renter.Download, newDownload,        *)
(* Download.downloadPiece, Download.Write and Renter.DownloadQueue.        *)
(*                                                                         *)
(* Download invocations are numbered 1..MaxCalls and run one after the     *)
(* other (a call starts when the previous one returned); the status        *)
(* accessors and DownloadQueue are run by a concurrent observer between    *)
(* any two steps of the running invocation.  The Download object built by  *)
(* invocation c is dl[c]; the os.File it created is file[c].               *)
(*                                                                         *)
(* Spec  : one Download invocation, over every catalog entry of up to      *)
(*         MaxPieces pieces with sizes 1..MaxSize.                         *)
(* SpecQ : up to MaxCalls invocations, over the catalog entries whose      *)
(*         pieces all have size 1.                                         *)
(***************************************************************************)
EXTENDS Integers, Sequences, FiniteSets, TLC

\* ------------------------------------------------------------- bounds
MaxCalls == 2
MaxPieces == 2
MaxSize == 2

\* ------------------------------------------------- program constants
downloadAttempts == 5

Calls == 1..MaxCalls
\* Byte values: the code never looks at them but through the cipher and the
\* digest, so two values stand for the 256.
Byte == {0, 1}
ByteMod == Cardinality(Byte)
KnownNicknames == {"f"}
Nicknames == {"f", "g"}
BadPath == "bad"
Paths == {"p", "q"}
Destinations == Paths \cup {BadPath}
\* The largest value of randSource[0], and the values of it that are drawn.
MaxByte == 255
RandBytes == {0, 1, MaxByte}

ErrNoFile == "no file of that nickname"
ErrCreate == "create failed"
ErrNoActive == "no active pieces"
ErrExhausted == "could not download any file pieces"
ConstructionErrors == {ErrNoFile, ErrCreate, ErrNoActive}

VARIABLES
    files,          \* r.files: nickname -> sequence of filePiece
    dir,            \* the directory: path -> inode (0: no such file)
    inodes,         \* inode -> file content
    mu,             \* r.mu is held exclusively
    downloadQueue,  \* r.downloadQueue
    dl,             \* the Download objects
    file,           \* the os.File handles made by os.Create
    pc,             \* position of each Download invocation
    nickname,       \* argument of the invocation
    destination,    \* argument of the invocation
    i,              \* the pass index of the retry loop
    k,              \* index of the piece in d.pieces
    conn,           \* bytes the current attempt has read from conn
    n,              \* result of d.file.Write not yet added to received
    ended,          \* the current attempt read its stream to EOF
    ret,            \* value returned by the invocation
    trace,          \* piece indexes the invocation has dialled
    sleeps,         \* number of time.Sleep calls of the invocation
    wait,           \* seconds the last time.Sleep was given
    enqueued,       \* invocations in the order they appended to the queue
    listing,        \* result of the last DownloadQueue call
    budget          \* number of Download invocations the callers make

vars == <<files, dir, inodes, mu, downloadQueue, dl, file, pc, nickname,
          destination, i, k, conn, n, ended, ret, trace, sleeps, wait,
          enqueued, listing, budget>>

\* ------------------------------------------------------ pure helpers

\* Byte sequences of length lo..hi.
ByteSeqs(lo, hi) == UNION {[1..m -> Byte] : m \in lo..hi}

\* crypto.ReaderMerkleRoot: a collision-free digest of the bytes read.
RECURSIVE MerkleRoot(_)
MerkleRoot(s) ==
    IF s = <<>> THEN 0
    ELSE MerkleRoot(SubSeq(s, 1, Len(s) - 1)) * (ByteMod + 1) + s[Len(s)] + 1

\* The key stream of a piece's cipher at stream position pos (1-based).
KeyStream(key, pos) == (key + pos) % ByteMod

\* EncryptionKey.NewWriter(d): the bytes handed to d for the chunk that
\* starts after `done` bytes of the stream.
Decrypt(key, done, chunk) ==
    [j \in 1..Len(chunk) |-> (chunk[j] + ByteMod - KeyStream(key, done + j)) % ByteMod]

Encrypt(key, plain) ==
    [j \in 1..Len(plain) |-> (plain[j] + KeyStream(key, j)) % ByteMod]

\* The user's file, of which every piece stores an encrypted copy.
Plain(size) == [j \in 1..size |-> j % ByteMod]

\* A filePiece of the catalog: the contract records the size and the Merkle
\* root of what the host stores, which is the encrypted file.
MkPiece(host, active, size) ==
    [HostIP |-> host, Active |-> active, EncryptionKey |-> host,
     FileSize |-> size,
     FileMerkleRoot |-> MerkleRoot(Encrypt(host, Plain(size)))]

PieceLists ==
    UNION {[1..m -> BOOLEAN \X (1..MaxSize)] : m \in 0..MaxPieces}

MkPieces(l) == [j \in 1..Len(l) |-> MkPiece(j, l[j][1], l[j][2])]

\* (*os.File).Write at the handle's offset; a hole is filled with zeroes.
WriteAt(content, off, b) ==
    LET newLen == IF off + Len(b) > Len(content) THEN off + Len(b) ELSE Len(content)
    IN [j \in 1..newLen |->
          IF j > off /\ j <= off + Len(b) THEN b[j - off]
          ELSE IF j <= Len(content) THEN content[j]
          ELSE 0]

\* newDownload's filter of the inactive pieces.
AllPieces(ps) == ps
RECURSIVE ActivePieces(_)
ActivePieces(ps) ==
    IF ps = <<>> THEN <<>>
    ELSE IF ps[1].Active THEN <<ps[1]>> \o ActivePieces(Tail(ps))
    ELSE ActivePieces(Tail(ps))

NoDownload ==
    [received |-> 0, complete |-> FALSE, filesize |-> 0, destination |-> "",
     nickname |-> "", pieces |-> <<>>]

NoFile == [inode |-> 0, off |-> 0, open |-> FALSE]

\* The status accessors of a Download.
Received(c) == dl[c].received
Complete(c) == dl[c].complete
Filesize(c) == dl[c].filesize

\* The piece the invocation is fetching.
Piece(c) == dl[c].pieces[k[c]]

\* ------------------------------------------------------------ Init

InitWith(calls, lists) ==
    /\ budget = calls
    /\ files \in {[nk \in KnownNicknames |-> MkPieces(l)] : l \in lists}
    /\ dir = [p \in Paths |-> 0]
    /\ inodes = [c \in Calls |-> <<>>]
    /\ mu = FALSE
    /\ downloadQueue = <<>>
    /\ dl = [c \in Calls |-> NoDownload]
    /\ file = [c \in Calls |-> NoFile]
    /\ pc = [c \in Calls |-> "idle"]
    /\ nickname = [c \in Calls |-> ""]
    /\ destination = [c \in Calls |-> ""]
    /\ i = [c \in Calls |-> 0]
    /\ k = [c \in Calls |-> 1]
    /\ conn = [c \in Calls |-> <<>>]
    /\ n = [c \in Calls |-> 0]
    /\ ended = [c \in Calls |-> FALSE]
    /\ ret = [c \in Calls |-> "none"]
    /\ trace = [c \in Calls |-> <<>>]
    /\ sleeps = [c \in Calls |-> 0]
    /\ wait = [c \in Calls |-> 0]
    /\ enqueued = <<>>
    /\ listing = <<>>

Init == InitWith(1, PieceLists)

InitQ == InitWith(MaxCalls, {l \in PieceLists : \A j \in 1..Len(l) : l[j][2] = 1})

\* ---------------------------------------------------------- actions

renterVars == <<files, budget>>
loopVars == <<i, k, sleeps, wait>>
argVars == <<nickname, destination>>

\* Paths are interchangeable: the first one a caller names is "p", and "q" is
\* a path that differs from one named before.
Nameable(c, dest) ==
    dest = "q" => \E o \in 1..(c - 1) : destination[o] = "p"

\* A caller invokes Download(nick, dest); it blocks in r.mu.Lock().
Call(c, nick, dest) ==
    /\ pc[c] = "idle"
    /\ c <= budget
    /\ Nameable(c, dest)
    /\ IF c = 1 THEN TRUE ELSE pc[c - 1] = "returned"
    /\ pc' = [pc EXCEPT ![c] = "lock"]
    /\ nickname' = [nickname EXCEPT ![c] = nick]
    /\ destination' = [destination EXCEPT ![c] = dest]
    /\ UNCHANGED <<renterVars, loopVars, dir, inodes, mu, downloadQueue, dl, file,
                   conn, n, ended, ret, trace, enqueued, listing>>

\* The error Download returns before its loop: the lookup in r.files, then
\* newDownload's os.Create and its filter of the active pieces.
ConstructErr(nick, dest) ==
    IF nick \notin DOMAIN files THEN ErrNoFile
    ELSE IF dest = BadPath THEN ErrCreate
    ELSE IF Len(ActivePieces(files[nick])) = 0 THEN ErrNoActive
    ELSE "nil"

\* newDownload reached os.Create and it made the file.
Created(nick, dest) == nick \in DOMAIN files /\ dest # BadPath

\* os.Create(dest): a new empty file, or the existing one truncated.
CreateInode(c, dest) == IF dir[dest] = 0 THEN c ELSE dir[dest]

\* The size newDownload declares for the session: that of file.Pieces[0],
\* active or not.
DeclaredSize(ps) == ps[1].FileSize

\* r.downloadQueue after the construction ended with err.
QueueAlways(q, c, err) == Append(q, c)
QueueAfter(q, c, err) == IF err = "nil" THEN Append(q, c) ELSE q

\* Download from r.mu.Lock() to r.mu.Unlock(): lookup, newDownload, enqueue.
\* The three error returns leave without unlocking.
Enter(c) ==
    /\ pc[c] = "lock"
    /\ ~mu
    /\ LET nick == nickname[c]
           dest == destination[c]
           err == ConstructErr(nick, dest)
           ino == CreateInode(c, dest)
       IN /\ IF Created(nick, dest)
             THEN /\ dir' = [dir EXCEPT ![dest] = ino]
                  /\ inodes' = [inodes EXCEPT ![ino] = <<>>]
                  /\ file' = [file EXCEPT ![c] = [inode |-> ino, off |-> 0, open |-> TRUE]]
             ELSE UNCHANGED <<dir, inodes, file>>
          /\ downloadQueue' = QueueAfter(downloadQueue, c, err)
          /\ IF err = "nil"
             THEN /\ dl' = [dl EXCEPT ![c] =
                              [received |-> 0, complete |-> FALSE,
                               filesize |-> DeclaredSize(files[nick]),
                               destination |-> dest, nickname |-> nick,
                               pieces |-> ActivePieces(files[nick])]]
                  /\ enqueued' = Append(enqueued, c)
                  /\ mu' = FALSE
                  /\ pc' = [pc EXCEPT ![c] = "dial"]
                  /\ UNCHANGED ret
             ELSE /\ mu' = TRUE
                  /\ ret' = [ret EXCEPT ![c] = err]
                  /\ pc' = [pc EXCEPT ![c] = "returned"]
                  /\ UNCHANGED <<dl, enqueued>>
    /\ UNCHANGED <<renterVars, loopVars, argVars, conn, n, ended, trace, listing>>

\* downloadPiece: net.DialTimeout, then the two WriteObject calls.
Dial(c, ok) ==
    /\ pc[c] = "dial"
    /\ trace' = [trace EXCEPT ![c] = Append(@, k[c])]
    /\ ended' = [ended EXCEPT ![c] = FALSE]
    /\ pc' = [pc EXCEPT ![c] = IF ok THEN "read" ELSE "seek"]
    /\ UNCHANGED <<renterVars, loopVars, argVars, dir, inodes, mu, downloadQueue,
                   dl, file, conn, n, ret, enqueued, listing>>

\* Bytes the LimitReader still lets through.
Remaining(c) == Piece(c).FileSize - Len(conn[c])

\* The n that d.file.Write returns when w of the len bytes were written.
Requested(w, len) == len
Written(w, len) == w

\* One Read of the tee: the host sends chunk; the decrypted chunk goes to
\* Download.Write, whose d.file.Write writes w of its bytes (w < Len(chunk)
\* is a write error).
ReadChunk(c, chunk, w) ==
    /\ pc[c] = "read"
    /\ Len(chunk) \in 1..Remaining(c)
    /\ w \in 0..Len(chunk)
    /\ LET plain == Decrypt(Piece(c).EncryptionKey, Len(conn[c]), chunk)
           f == file[c]
       IN /\ inodes' = [inodes EXCEPT ![f.inode] = WriteAt(@, f.off, SubSeq(plain, 1, w))]
          /\ file' = [file EXCEPT ![c].off = @ + w]
    /\ conn' = [conn EXCEPT ![c] = @ \o chunk]
    /\ n' = [n EXCEPT ![c] = Written(w, Len(chunk))]
    /\ pc' = [pc EXCEPT ![c] = IF w = Len(chunk) THEN "add" ELSE "add_err"]
    /\ UNCHANGED <<renterVars, loopVars, argVars, dir, mu, downloadQueue, dl,
                   ended, ret, trace, enqueued, listing>>

\* atomic.AddUint64(&d.received, uint64(n)).
SubReceived(old, w) == old - w
AddUint64(old, w) == old + w

\* Download.Write after d.file.Write: publish the count, return n, err.
AddReceived(c) ==
    /\ pc[c] \in {"add", "add_err"}
    /\ dl' = [dl EXCEPT ![c].received = AddUint64(@, n[c])]
    /\ n' = [n EXCEPT ![c] = 0]
    /\ pc' = [pc EXCEPT ![c] = IF pc[c] = "add" THEN "read" ELSE "seek"]
    /\ UNCHANGED <<renterVars, loopVars, argVars, dir, inodes, mu, downloadQueue,
                   file, conn, ended, ret, trace, enqueued, listing>>

\* The root ReaderMerkleRoot computes: over what the tee read from conn.
ComputedRoot(c) == MerkleRoot(conn[c])

\* downloadPiece's test merkleRoot != piece.Contract.FileMerkleRoot.
SizeMatches(c) == Len(conn[c]) = Piece(c).FileSize
RootMatches(c) == ComputedRoot(c) = Piece(c).FileMerkleRoot

\* The stream ends (the limit is reached or the host closes): ReaderMerkleRoot
\* returns the root and downloadPiece compares it with the contract's.
ReadEOF(c) ==
    /\ pc[c] = "read"
    /\ ended' = [ended EXCEPT ![c] = TRUE]
    /\ pc' = [pc EXCEPT ![c] = IF RootMatches(c) THEN "complete" ELSE "seek"]
    /\ UNCHANGED <<renterVars, loopVars, argVars, dir, inodes, mu, downloadQueue,
                   dl, file, conn, n, ret, trace, enqueued, listing>>

\* The connection fails in mid-stream: ReaderMerkleRoot returns the error.
ReadError(c) ==
    /\ pc[c] = "read"
    /\ Remaining(c) > 0
    /\ pc' = [pc EXCEPT ![c] = "seek"]
    /\ UNCHANGED <<renterVars, loopVars, argVars, dir, inodes, mu, downloadQueue,
                   dl, file, conn, n, ended, ret, trace, enqueued, listing>>

\* Where Download goes after d.complete = true.
FallThrough(c) == "seek"
AfterComplete(c) == "close_ok"

\* downloadErr == nil: d.complete = true.
SetComplete(c) ==
    /\ pc[c] = "complete"
    /\ dl' = [dl EXCEPT ![c].complete = TRUE]
    /\ pc' = [pc EXCEPT ![c] = AfterComplete(c)]
    /\ UNCHANGED <<renterVars, loopVars, argVars, dir, inodes, mu, downloadQueue,
                   file, conn, n, ended, ret, trace, enqueued, listing>>

\* Download returns: its locals are gone (and with them the record of its
\* attempts and sleeps).
Return(c) ==
    /\ i' = [i EXCEPT ![c] = 0]
    /\ k' = [k EXCEPT ![c] = 1]
    /\ conn' = [conn EXCEPT ![c] = <<>>]
    /\ n' = [n EXCEPT ![c] = 0]
    /\ ended' = [ended EXCEPT ![c] = FALSE]
    /\ trace' = [trace EXCEPT ![c] = <<>>]
    /\ sleeps' = [sleeps EXCEPT ![c] = 0]
    /\ wait' = [wait EXCEPT ![c] = 0]

\* d.file.Close(); return nil.
CloseOk(c) ==
    /\ pc[c] = "close_ok"
    /\ file' = [file EXCEPT ![c].open = FALSE]
    /\ ret' = [ret EXCEPT ![c] = "nil"]
    /\ pc' = [pc EXCEPT ![c] = "returned"]
    /\ Return(c)
    /\ UNCHANGED <<renterVars, argVars, dir, inodes, mu, downloadQueue, dl,
                   enqueued, listing>>

\* d.file.Seek(0, 0) on the handle f.
NoSeek(f) == f
SeekStart(f) == [f EXCEPT !.off = 0]

\* The attempt failed: d.file.Seek(0, 0).
Seek(c) ==
    /\ pc[c] = "seek"
    /\ file' = [file EXCEPT ![c] = SeekStart(@)]
    /\ pc' = [pc EXCEPT ![c] = "swap"]
    /\ UNCHANGED <<renterVars, loopVars, argVars, dir, inodes, mu, downloadQueue,
                   dl, conn, n, ended, ret, trace, enqueued, listing>>

\* The index the range loop over d.pieces visits after index j.
SamePiece(j) == j
NextPiece(j) == j + 1

\* atomic.SwapUint64(&d.received, 0), then the next piece of the range loop.
Swap(c) ==
    /\ pc[c] = "swap"
    /\ dl' = [dl EXCEPT ![c].received = 0]
    /\ conn' = [conn EXCEPT ![c] = <<>>]
    /\ IF k[c] < Len(dl[c].pieces)
       THEN /\ k' = [k EXCEPT ![c] = NextPiece(@)]
            /\ pc' = [pc EXCEPT ![c] = "dial"]
       ELSE /\ k' = [k EXCEPT ![c] = 1]
            /\ pc' = [pc EXCEPT ![c] = "sleep"]
    /\ UNCHANGED <<renterVars, argVars, i, sleeps, wait, dir, inodes, mu,
                   downloadQueue, file, n, ended, ret, trace, enqueued, listing>>

\* time.Second * time.Duration(i*i) * time.Duration(randSource[0]), in seconds.
BackoffLinear(pass, b) == pass * b
BackoffFromOne(pass, b) == (pass + 1) * (pass + 1) * b
Backoff(pass, b) == pass * pass * b

\* The loop test i < downloadAttempts after i++.
LoopAgain(pass) == pass < downloadAttempts

\* The pass failed: rand.Read, then time.Sleep begins.
Sleep(c, b) ==
    /\ pc[c] = "sleep"
    /\ wait' = [wait EXCEPT ![c] = Backoff(i[c], b)]
    /\ sleeps' = [sleeps EXCEPT ![c] = @ + 1]
    /\ pc' = [pc EXCEPT ![c] = "sleeping"]
    /\ UNCHANGED <<renterVars, argVars, i, k, dir, inodes, mu, downloadQueue, dl,
                   file, conn, n, ended, ret, trace, enqueued, listing>>

\* time.Sleep returns: i++ and the loop test.
Wake(c) ==
    /\ pc[c] = "sleeping"
    /\ wait' = [wait EXCEPT ![c] = 0]
    /\ i' = [i EXCEPT ![c] = @ + 1]
    /\ pc' = [pc EXCEPT ![c] = IF LoopAgain(i[c] + 1) THEN "dial" ELSE "close_fail"]
    /\ UNCHANGED <<renterVars, argVars, k, sleeps, dir, inodes, mu, downloadQueue,
                   dl, file, conn, n, ended, ret, trace, enqueued, listing>>

\* All passes failed: d.file.Close().
CloseFail(c) ==
    /\ pc[c] = "close_fail"
    /\ file' = [file EXCEPT ![c].open = FALSE]
    /\ pc' = [pc EXCEPT ![c] = "remove"]
    /\ UNCHANGED <<renterVars, loopVars, argVars, dir, inodes, mu, downloadQueue,
                   dl, conn, n, ended, ret, trace, enqueued, listing>>

\* os.Remove(path) on the directory d.
KeepFile(d, path) == d
RemoveFile(d, path) == [d EXCEPT ![path] = 0]

\* The file system frees an unlinked file that no handle has open.
Unlinked(ino) ==
    IF ino # 0 /\ \A c \in Calls : ~(file[c].open /\ file[c].inode = ino)
    THEN [inodes EXCEPT ![ino] = <<>>]
    ELSE inodes

\* os.Remove(destination); return the error.
Remove(c) ==
    /\ pc[c] = "remove"
    /\ dir' = RemoveFile(dir, destination[c])
    /\ inodes' = IF dir'[destination[c]] = 0 THEN Unlinked(dir[destination[c]]) ELSE inodes
    /\ ret' = [ret EXCEPT ![c] = ErrExhausted]
    /\ pc' = [pc EXCEPT ![c] = "returned"]
    /\ Return(c)
    /\ UNCHANGED <<renterVars, argVars, mu, downloadQueue, dl, file, enqueued,
                   listing>>

\* The copy DownloadQueue builds: downloads[i] = queue[len(queue)-i-1].
SameOrder(q) == q
Reversed(q) == [j \in 1..Len(q) |-> q[Len(q) - j + 1]]

\* DownloadQueue, from RLock to the deferred RUnlock.
DownloadQueue ==
    /\ ~mu
    /\ listing' = Reversed(downloadQueue)
    /\ UNCHANGED <<renterVars, loopVars, argVars, dir, inodes, mu, downloadQueue,
                   dl, file, pc, conn, n, ended, ret, trace, enqueued>>

\* A step of a running Download invocation.
Run(c) ==
    \/ Enter(c)
    \/ \E ok \in BOOLEAN : Dial(c, ok)
    \/ \E chunk \in ByteSeqs(1, MaxSize), w \in 0..MaxSize : ReadChunk(c, chunk, w)
    \/ AddReceived(c)
    \/ ReadEOF(c)
    \/ ReadError(c)
    \/ SetComplete(c)
    \/ CloseOk(c)
    \/ Seek(c)
    \/ Swap(c)
    \/ \E b \in RandBytes : Sleep(c, b)
    \/ Wake(c)
    \/ CloseFail(c)
    \/ Remove(c)

Next ==
    \/ \E c \in Calls, nick \in Nicknames, dest \in Destinations : Call(c, nick, dest)
    \/ \E c \in Calls : Run(c)
    \/ DownloadQueue

Spec == Init /\ [][Next]_vars

SpecQ == InitQ /\ [][Next]_vars

\* Every invocation that can take a step eventually takes one.
FairSpecQ == SpecQ /\ \A c \in Calls : WF_vars(Run(c))

\* ----------------------------------------------------------- claims

\* The file the handle of invocation c refers to.
Content(c) == inodes[file[c].inode]

\* What the cipher's writer handed to d during the current attempt.
Decrypted(c) == Decrypt(Piece(c).EncryptionKey, 0, conn[c])

Range(q) == {q[j] : j \in 1..Len(q)}

RECURSIVE Rev(_)
Rev(q) == IF q = <<>> THEN <<>> ELSE Append(Rev(Tail(q)), Head(q))

\* Invocation c takes a step of its retry loop other than closing the file.
LoopStep(c) ==
    \/ \E ok \in BOOLEAN : Dial(c, ok)
    \/ \E chunk \in ByteSeqs(1, MaxSize), w \in 0..MaxSize : ReadChunk(c, chunk, w)
    \/ AddReceived(c)
    \/ ReadEOF(c)
    \/ ReadError(c)
    \/ Seek(c)
    \/ Swap(c)
    \/ \E b \in RandBytes : Sleep(c, b)
    \/ Wake(c)

C2_Original ==
    [][\A c \in Calls :
          CloseOk(c) =>
              /\ ret'[c] = "nil"
              /\ inodes'[file[c].inode] = Decrypted(c)
              /\ Len(inodes'[file[c].inode]) = Piece(c).FileSize
              /\ dl'[c].received = Piece(c).FileSize]_vars

\* C3: a session whose attempts all failed leaves its loop after
\* downloadAttempts passes over its pieces and returns the exhaustion error
\* with the handle closed, the destination file gone and complete false.
C3_ExhaustionCleanup ==
    \A c \in Calls :
        /\ i[c] <= downloadAttempts
        /\ i[c] = downloadAttempts <=> pc[c] \in {"close_fail", "remove"}
        /\ pc[c] \in {"close_fail", "remove"} =>
              /\ Len(trace[c]) = downloadAttempts * Len(dl[c].pieces)
              /\ dl[c].pieces # <<>>
        /\ (pc[c] = "returned" /\ c \in Range(enqueued) /\ ~dl[c].complete) =>
              ret[c] = ErrExhausted
        /\ ret[c] = ErrExhausted =>
              /\ pc[c] = "returned"
              /\ ~dl[c].complete
              /\ ~file[c].open
              /\ dir[destination[c]] = 0

\* A session returned the exhaustion error: its file existed and is gone.
C3_Witness ==
    \E c \in Calls : ret[c] = ErrExhausted /\ file[c].inode # 0

\* C4: once complete is true it stays true, and the session dials no piece,
\* resets neither the counter nor the write position, and starts no pass and
\* no sleep: it only closes the file and returns.
C4_AtMostOneSuccess ==
    [][\A c \in Calls :
          dl[c].complete =>
             /\ dl'[c].complete
             /\ ~LoopStep(c)
             /\ dl'[c].received = dl[c].received
             /\ file'[c].off = file[c].off
             /\ pc[c] \in {"close_ok", "returned"}]_vars

\* A completed session returned, and a later invocation ran after it.
C4_Witness ==
    \E c, o \in Calls : dl[c].complete /\ pc[c] = "returned" /\ c # o /\ trace[o] # <<>>

\* C5: every call to Download eventually returns, after at most
\* downloadAttempts * (number of active pieces) attempts, with nil exactly when
\* an attempt succeeded and the exhaustion error exactly when all failed.
C5_Original ==
    /\ \A c \in Calls : (pc[c] = "lock") ~> (pc[c] = "returned")
    /\ [](\A c \in Calls :
            /\ Len(trace[c]) <= downloadAttempts * Len(dl[c].pieces)
            /\ ret[c] = "nil" <=> (pc[c] = "returned" /\ dl[c].complete)
            /\ pc[c] = "remove" =>
                  ~dl[c].complete /\ Len(trace[c]) = downloadAttempts * Len(dl[c].pieces))

\* C6 as stated: Received() never decreases from one instant to the next, so
\* no two successive reads of an observer decrease.
C6_Original ==
    [][\A c \in Calls : Received(c)' >= Received(c)]_vars

\* C6 amended: Received() decreases between two successive reads only through
\* the reset that follows a failed piece attempt, which sets it to zero; within
\* a piece attempt it never decreases.
C6_MonotoneUntilReset ==
    [][\A c \in Calls :
          \/ Received(c)' >= Received(c)
          \/ Swap(c) /\ Received(c)' = 0]_vars

\* A failed attempt published bytes and is about to reset the counter.
C6_Witness ==
    \E c \in Calls : pc[c] = "swap" /\ Received(c) > 0

\* C7: Received() never exceeds Filesize().
C7_Original ==
    \A c \in Calls : Received(c) <= Filesize(c)

\* C8: where the next piece attempt or the backoff begins, the counter and
\* the write position are zero, whatever the failed attempt wrote.
C8_ResetOnFailure ==
    \A c \in Calls :
        pc[c] \in {"dial", "sleep"} =>
            Received(c) = 0 /\ file[c].off = 0 /\ n[c] = 0

\* A failed attempt wrote bytes and the next attempt is about to begin.
C8_Witness ==
    \E c \in Calls : pc[c] = "dial" /\ trace[c] # <<>> /\ Content(c) # <<>>

\* C9: DownloadQueue returns the sessions enqueued so far, each once, most
\* recent first; the queue only grows by appending, so completed and exhausted
\* sessions stay listed.
C9_QueueListing ==
    /\ [](/\ downloadQueue = enqueued
          /\ Cardinality(Range(downloadQueue)) = Len(downloadQueue)
          /\ \A c \in Calls : ret[c] \in {"nil", ErrExhausted} => c \in Range(downloadQueue))
    /\ [][/\ DownloadQueue => listing' = Rev(enqueued)
          /\ Len(downloadQueue') >= Len(downloadQueue)
          /\ SubSeq(downloadQueue', 1, Len(downloadQueue)) = downloadQueue]_vars

\* A listing of two sessions, one completed and one exhausted.
C9_Witness ==
    /\ Len(listing) = 2
    /\ \E c, o \in Calls : ret[c] = "nil" /\ ret[o] = ErrExhausted

\* The catalog entry of nick has no active piece.
NoActivePiece(nick) ==
    \A j \in 1..Len(files[nick]) : ~files[nick][j].Active

\* Invocation c is bound to fail in construction.
ConstructionFails(c) ==
    \/ nickname[c] \notin KnownNicknames
    \/ destination[c] = BadPath
    \/ NoActivePiece(nickname[c])

\* C10: a Download that fails in construction returns its error in the step
\* that took the lock, dials no piece and leaves the queue unchanged.
C10_ConstructionErrors ==
    /\ [][\A c \in Calls :
             (pc[c] = "lock" /\ pc'[c] # "lock" /\ ConstructionFails(c)) =>
                 /\ pc'[c] = "returned"
                 /\ ret'[c] \in ConstructionErrors
                 /\ downloadQueue' = downloadQueue
                 /\ trace'[c] = <<>>]_vars
    /\ [](\A c \in Calls :
             ret[c] \in ConstructionErrors =>
                 pc[c] = "returned" /\ trace[c] = <<>> /\ c \notin Range(downloadQueue))

\* A construction error was returned while the queue holds a session.
C10_Witness ==
    \E c \in Calls : ret[c] \in ConstructionErrors /\ Len(downloadQueue) = 1

\* Invocation c has returned an error.
Failed(c) == ret[c] \in ConstructionErrors \cup {ErrExhausted}

\* C11: when Download returns an error, the destination file the call created
\* is no longer on disk and the handle it opened is closed.
C11_Original ==
    \A c \in Calls :
        Failed(c) =>
            /\ ~file[c].open
            /\ file[c].inode # 0 => dir[destination[c]] # file[c].inode

\* Two active pieces of the catalog entry ps declare different sizes.
InconsistentSizes(ps) ==
    \E a, b \in 1..Len(ps) :
        ps[a].Active /\ ps[b].Active /\ ps[a].FileSize # ps[b].FileSize

\* C12: a file whose active pieces declare different sizes gets no session:
\* none is enqueued and no piece of it is attempted.
C12_Original ==
    \A c \in Calls :
        (pc[c] \notin {"idle", "lock"} /\ nickname[c] \in KnownNicknames
            /\ InconsistentSizes(files[nickname[c]])) =>
                /\ c \notin Range(downloadQueue)
                /\ trace[c] = <<>>
                /\ pc[c] = "returned"

\* A wait of s whole seconds is a time.Duration: s * 10^9 nanoseconds is at
\* most 2^63 - 1 = 9223372036 * 10^9 + 854775807, and not negative.
InDurationRange(s) ==
    /\ s >= 0
    /\ \/ s \div 1000 < 9223372
       \/ s \div 1000 = 9223372 /\ s % 1000 <= 36

\* C13: the wait after failed pass i is i*i*b seconds for a byte b of
\* 0..255; its largest value 255*i*i does not decrease with i, and the
\* duration is in range and not negative.
C13_BackoffGrowth ==
    /\ \A c \in Calls :
           pc[c] = "sleeping" =>
               /\ i[c] \in 0..(downloadAttempts - 1)
               /\ \E b \in 0..MaxByte : wait[c] = i[c] * i[c] * b
               /\ wait[c] <= MaxByte * i[c] * i[c]
               /\ InDurationRange(wait[c])
    /\ \A pass \in 0..(downloadAttempts - 1) :
           /\ Backoff(pass, MaxByte) = MaxByte * pass * pass
           /\ InDurationRange(Backoff(pass, MaxByte))
           /\ pass > 0 => Backoff(pass - 1, MaxByte) <= Backoff(pass, MaxByte)

\* The longest wait: the last pass with the largest byte.
C13_Witness ==
    \E c \in Calls :
        /\ pc[c] = "sleeping"
        /\ i[c] = downloadAttempts - 1
        /\ wait[c] = MaxByte * i[c] * i[c]

\* C14 as stated: after the failed passes 0 and 1 the wait is zero.
C14_Original ==
    \A c \in Calls : (pc[c] = "sleeping" /\ i[c] \in {0, 1}) => wait[c] = 0

\* C14: after the failed pass 0 the wait is zero for every byte; after the
\* failed pass 1 it is the byte itself in seconds, at most 255.
C14_FirstPasses ==
    /\ \A c \in Calls :
           /\ (pc[c] = "sleeping" /\ i[c] = 0) => wait[c] = 0
           /\ (pc[c] = "sleeping" /\ i[c] = 1) => wait[c] \in 0..MaxByte
    /\ \A b \in RandBytes : Backoff(0, b) = 0 /\ Backoff(1, b) = b

\* The wait after pass 1 with the largest byte.
C14_Witness ==
    \E c \in Calls : pc[c] = "sleeping" /\ i[c] = 1 /\ wait[c] = MaxByte

\* C15: the attempts of a session are a prefix of its piece list repeated
\* downloadAttempts times, and nothing is attempted after a success.
C15_AttemptOrder ==
    /\ [](\A c \in Calls :
             LET np == Len(dl[c].pieces)
             IN /\ Len(trace[c]) <= downloadAttempts * np
                /\ \A j \in 1..Len(trace[c]) : trace[c][j] = ((j - 1) % np) + 1)
    /\ [][\A c \in Calls :
             Complete(c) => trace'[c] \in {trace[c], <<>>}]_vars

\* A session of two pieces that succeeded at the first piece of the second
\* pass.
C15_Witness ==
    \E c \in Calls :
        /\ Complete(c)
        /\ Len(dl[c].pieces) = 2
        /\ trace[c] = <<1, 2, 1>>

\* C16: a sleep is followed by another pass; after the last failed pass the
\* session is closed and deleted without a sleep.
C16_Original ==
    \A c \in Calls : pc[c] = "sleeping" => LoopAgain(i[c] + 1)

\* The bytes on disk under the destination of session c.
BytesInFile(c) ==
    IF file[c].inode # 0 /\ dir[destination[c]] = file[c].inode
    THEN Len(Content(c))
    ELSE 0

\* C17: for a single session, Received() never exceeds the number of bytes
\* in the destination file.
C17_ReceivedBacked ==
    \A c \in Calls : Received(c) <= BytesInFile(c)

\* Between the file write and the counter add, after an earlier reset.
C17_Witness ==
    \E c \in Calls :
        /\ pc[c] = "add"
        /\ n[c] > 0
        /\ Len(trace[c]) > 1
        /\ Received(c) + n[c] = BytesInFile(c)

\* C18: the piece list of a session is the active pieces of the file in
\* their order, and every attempt is against an active piece.
C18_ActiveOnly ==
    \A c \in Range(downloadQueue) :
        LET ps == dl[c].pieces
        IN /\ ps = SelectSeq(files[dl[c].nickname], LAMBDA p : p.Active)
           /\ \A j \in Range(trace[c]) : j \in 1..Len(ps) /\ ps[j].Active

\* Every pass was spent on the one active piece of a file that also has an
\* inactive one.
C18_Witness ==
    \E c \in Range(downloadQueue) :
        /\ Len(trace[c]) = downloadAttempts
        /\ Len(dl[c].pieces) = 1
        /\ Len(files[dl[c].nickname]) = 2

\* C19: Download has released the renter lock whenever it has returned.
C19_Original ==
    \A c \in Calls : pc[c] = "returned" => ~mu

\* C20: while a queued session reports Complete() = true, its destination
\* file is on disk and holds the bytes the session verified.
C20_Original ==
    \A c \in Range(downloadQueue) :
        Complete(c) =>
            /\ dir[destination[c]] = file[c].inode
            /\ \E j \in 1..Len(dl[c].pieces) :
                   Content(c) = Plain(dl[c].pieces[j].FileSize)
====
